---- MODULE Spec2Model ----
(***************************************************************************)
(* Webook ticket bot: the orchestrator (bot.js start), the worker pool it  *)
(* configures, the per-account monitorTask, the BookingHandler operations  *)
(* and the account store.                                                  *)
(*                                                                         *)
(* Time is counted in milliseconds and advances in steps of TickMs; only   *)
(* the two long timers (the pool's per-task timeout and the payment hold)  *)
(* are clocked.                                                            *)
(***************************************************************************)
EXTENDS Integers, Sequences, FiniteSets, TLC

\* ------------------------------------------------------------------ bounds
MaxAccounts == 2
MaxProxies == 2
MaxZones == 2
MaxTrace == 8
MaxSaves == 3
TickMs == 300000

\* ------------------------------------------------------- program constants
timeout == 300000
paymentHoldTime == 900000
maxSeats == 5
canvasClickAttempts == 30
maxAttempts == 20

NoExit == 0 - 1

\* ------------------------------------------------------------------ helpers
Range(s) == {s[i] : i \in 1..Len(s)}

Min(a, b) == IF a < b THEN a ELSE b

Max(a, b) == IF a > b THEN a ELSE b

RECURSIVE SelectSeq2(_, _)
\* Array.prototype.filter over a sequence, Test given as a set of kept values
SelectSeq2(s, keep) ==
  IF s = <<>> THEN <<>>
  ELSE IF Head(s) \in keep THEN <<Head(s)>> \o SelectSeq2(Tail(s), keep)
       ELSE SelectSeq2(Tail(s), keep)

\* ------------------------------------------------------------------ cookies
CkToken == [name |-> "token", value |-> "v", domain |-> ".webook.com", malformed |-> FALSE]
CkSid == [name |-> "sid", value |-> "v", domain |-> ".webook.com", malformed |-> FALSE]
CkTokenBare == [name |-> "token", value |-> "", domain |-> "", malformed |-> FALSE]
CkTokenBad == [name |-> "token", value |-> "v", domain |-> ".webook.com", malformed |-> TRUE]

Cookies == {CkToken, CkSid, CkTokenBare, CkTokenBad}

\* the credential sets of the multi-account runs, and of the single-task runs
CookieSets == {<<>>, <<CkSid>>, <<CkToken>>}

CookieSetsTask == {<<CkToken>>, <<CkSid, CkToken>>, <<CkTokenBare>>, <<CkTokenBad>>}

Emails == <<"a@webook", "b@webook", "c@webook", "d@webook">>

\* an account record of accounts.json; hasCookies = FALSE is a missing cookies
\* key, addedAt the time saveAccount stamped on it
AccountsAt(i, sets) ==
  {[email |-> e, hasCookies |-> h, cookies |-> c, addedAt |-> 0] :
     e \in {"", Emails[i]}, h \in {TRUE}, c \in sets}
  \cup {[email |-> Emails[i], hasCookies |-> FALSE, cookies |-> <<>>, addedAt |-> 0]}

RECURSIVE AccountLists(_, _)
\* every account list of length n, the i-th account drawn from AccountsAt(i, sets)
AccountLists(n, sets) ==
  IF n = 0 THEN {<<>>}
  ELSE {Append(l, a) : l \in AccountLists(n - 1, sets), a \in AccountsAt(n, sets)}

\* ------------------------------------------------------------------ proxies
Proxy1 == [scheme |-> "http://", cred |-> "user:pw", host |-> "p1:8080"]
Proxy2 == [scheme |-> "", cred |-> "", host |-> "p2:3128"]
NoProxy == [scheme |-> "", cred |-> "", host |-> ""]

AllProxies == <<Proxy1, Proxy2, Proxy1, Proxy2>>

ProxyLists == {SubSeq(AllProxies, 1, n) : n \in 0..MaxProxies}

\* proxy.replace(/https?:\/\//, '').split('@').pop(), or 'Direct' for no proxy
proxyInfo(proxy) == IF proxy # NoProxy THEN proxy.host ELSE "Direct"

\* --------------------------------------------------------------- the site
\* The target page as every session sees it (all accounts load config.event.url).
\*   canvas    "none" | "nobox" | "ok": page.$('canvas') and its boundingBox()
\*   signalAt  the first canvas click after which the zone-confirmation signal
\*             is seen (0: never)
\*   zoneFault the page raises during zone selection
\*   evalFault the canvas click after which the signal check (page.evaluate)
\*             raises (0: never)
\*   htmlZones the number of elements matching selectors.availableZones
\*   t1        the configured zoneName selector shows the clicked zone's label
\*   t2, t3    the lexicon scan's text and the dialog header's text ("": none)
\*   tips      the tooltip's first line after each successive canvas click
\*   clickable per seat selector, per found element: does its click succeed
\*   quantity  a quantity input is found
\*   confirmBtn a confirm/checkout control is found
\*   summary   the order summary appears within extractTicketDetails' wait
\*   ticketIds, items, seatLines: the cart's ticket lines, the texts of the
\*             #event-tickets items, the seat/row lines of the page text
ZoneLabels == <<"Zone A", "Zone B", "Zone C", "Zone D">>

SeatLabels == <<"Seat 1", "Seat 2", "Seat 3", "Seat 4", "Seat 5", "Seat 6">>

BaseSite ==
  [canvas |-> "none", signalAt |-> 0, zoneFault |-> FALSE, evalFault |-> 0,
   htmlZones |-> MaxZones,
   t1 |-> TRUE, t2 |-> "", t3 |-> "",
   tips |-> <<>>, clickable |-> <<<<>>, <<TRUE, TRUE, TRUE, TRUE, TRUE, TRUE>>>>,
   quantity |-> FALSE,
   confirmBtn |-> TRUE, summary |-> TRUE,
   ticketIds |-> <<"cart-ticket-line-1">>, items |-> <<"Row 1 Seat 1">>,
   seatLines |-> <<>>]

ZoneVariants ==
  {[canvas |-> c, signalAt |-> s, zoneFault |-> f, evalFault |-> e, htmlZones |-> z,
    t1 |-> a, t2 |-> b, t3 |-> d] :
     c \in {"none", "nobox", "ok"}, s \in {0, 1, maxAttempts}, f \in BOOLEAN,
     e \in {0, maxAttempts},
     z \in {0, MaxZones}, a \in BOOLEAN, b \in {""}, d \in {"", "Dialog title"}}

SeatVariants ==
  {[tips |-> t, clickable |-> k, quantity |-> q] :
     t \in {<<>>, <<"A1", "", "A1", "A2", "A3", "A4", "A5", "A6">>},
     k \in {<<>>, <<<<>>, <<FALSE, TRUE, TRUE>>>>,
            <<<<>>, <<TRUE, TRUE, TRUE, TRUE, TRUE, TRUE>>>>},
     q \in BOOLEAN}

CartVariants ==
  {[confirmBtn |-> c, summary |-> s, ticketIds |-> i, items |-> d, seatLines |-> l] :
     c \in BOOLEAN, s \in BOOLEAN, i \in {<<>>, <<"cart-ticket-line-1">>},
     d \in {<<>>, <<"Row 1 Seat 1">>}, l \in {<<>>, <<"Seat 12">>}}

\* a zone variant is kept once per outcome-relevant setting: fields the chosen
\* path never reads are held at their base value
ZoneRelevant(z) ==
  /\ (z.canvas # "ok" => z.signalAt = 0)
  /\ (z.canvas # "none" => z.htmlZones = 0)
  /\ (z.zoneFault => z.canvas = "ok" /\ z.signalAt = 1 /\ z.t1 /\ z.t3 = "")
  /\ (z.evalFault # 0 => z.canvas = "ok" /\ z.signalAt = 0 /\ ~z.zoneFault)
  /\ (z.canvas = "nobox" => z.t1 /\ z.t3 = "")
  /\ (z.canvas = "ok" /\ z.signalAt = 0 => z.t1 /\ z.t3 = "")
  /\ (z.canvas = "none" /\ z.htmlZones = 0 => z.t1 /\ z.t3 = "")

\* the tooltip is read only after a click on a canvas that has a bounding box
SeatRelevant(x) == x.canvas # "ok" => x.tips = <<>>

CartRelevant(c) ==
  /\ (~c.summary => c.ticketIds = <<>> /\ c.items = <<>> /\ c.seatLines = <<>>)
  /\ (c.ticketIds = <<>> <=> c.items = <<>>)
  /\ (c.items # <<>> => c.seatLines = <<>>)

Sites ==
  {x \in
  {[canvas |-> z.canvas, signalAt |-> z.signalAt, zoneFault |-> z.zoneFault,
    evalFault |-> z.evalFault, htmlZones |-> z.htmlZones, t1 |-> z.t1, t2 |-> z.t2, t3 |-> z.t3,
    tips |-> s.tips, clickable |-> s.clickable, quantity |-> s.quantity,
    confirmBtn |-> c.confirmBtn, summary |-> c.summary,
    ticketIds |-> c.ticketIds, items |-> c.items, seatLines |-> c.seatLines] :
     z \in {v \in ZoneVariants : ZoneRelevant(v)}, s \in SeatVariants,
     c \in {v \in CartVariants : CartRelevant(v)}} : SeatRelevant(x)}

\* the sites of the multi-account runs
SitesOrch == {[BaseSite EXCEPT !.htmlZones = 1, !.clickable = <<>>, !.summary = FALSE]}

\* ----------------------------------------------------------- BookingHandler
\* Every public operation returns [raised, value]: raised tells whether the
\* call throws to monitorTask. `closed` is a session the pool has closed: every
\* page call on it rejects.

\* clickBookButton that reports availability without having found the control
clickBookButtonEager(closed, b) ==
  IF closed THEN [raised |-> FALSE, value |-> FALSE]
  ELSE IF b = "clickFails" THEN [raised |-> FALSE, value |-> FALSE]
  ELSE [raised |-> FALSE, value |-> TRUE]

\* BookingHandler.clickBookButton; b is what the page does at this call
clickBookButton(closed, b) ==
  IF closed \/ b = "absent" THEN [raised |-> FALSE, value |-> FALSE]
  ELSE IF b = "clickFails" THEN [raised |-> FALSE, value |-> FALSE]
  ELSE [raised |-> FALSE, value |-> TRUE]

\* BookingHandler.extractZoneName after zone k was clicked
extractZoneName(site, k) ==
  IF site.t1 THEN ZoneLabels[k]
  ELSE IF site.t2 # "" THEN site.t2
  ELSE IF site.t3 # "" THEN site.t3
  ELSE "Zone Selected"

\* selectHtmlZone that reads the name of the zone after the one it clicked
selectHtmlZoneNext(site, k) ==
  IF site.zoneFault THEN [zone |-> "Unknown Zone", via |-> "fault"]
  ELSE IF site.htmlZones = 0 THEN [zone |-> "Direct Selection", via |-> "nozones"]
  ELSE [zone |-> extractZoneName(site, k + 1), via |-> "html"]

\* BookingHandler.selectHtmlZone; k is the Math.random() pick. `via` names the
\* return statement taken: "fault" the catch, "nozones" line 129, "html" line 144
selectHtmlZone(site, k) ==
  IF site.zoneFault THEN [zone |-> "Unknown Zone", via |-> "fault"]
  ELSE IF site.htmlZones = 0 THEN [zone |-> "Direct Selection", via |-> "nozones"]
  ELSE [zone |-> extractZoneName(site, k), via |-> "html"]

RECURSIVE canvasZoneOneMore(_, _)
\* the while loop with the bound tested as attempt <= maxAttempts
canvasZoneOneMore(site, attempt) ==
  IF attempt <= maxAttempts
  THEN IF site.zoneFault
       THEN [zone |-> "Unknown Zone", clicks |-> attempt, via |-> "fault"]
       ELSE IF site.evalFault = attempt + 1
            THEN [zone |-> "Unknown Zone", clicks |-> attempt + 1, via |-> "fault"]
       ELSE IF site.signalAt = attempt + 1
            THEN [zone |-> extractZoneName(site, 1), clicks |-> attempt + 1,
                  via |-> "signal"]
            ELSE canvasZoneOneMore(site, attempt + 1)
  ELSE [zone |-> "Zone Selection Timeout", clicks |-> attempt, via |-> "exhausted"]

RECURSIVE canvasZone(_, _)
\* the while loop of selectZone from `attempt` clicks made: [zone, clicks, via];
\* via is "signal" for the return of line 107 (zoneSelected was true),
\* "exhausted" for line 114, "fault" for the catch (page.mouse.click raised
\* before the click was made, or page.evaluate raised after it)
canvasZone(site, attempt) ==
  IF attempt < maxAttempts
  THEN IF site.zoneFault
       THEN [zone |-> "Unknown Zone", clicks |-> attempt, via |-> "fault"]
       ELSE IF site.evalFault = attempt + 1
            THEN [zone |-> "Unknown Zone", clicks |-> attempt + 1, via |-> "fault"]
       ELSE IF site.signalAt = attempt + 1
            THEN [zone |-> extractZoneName(site, 1), clicks |-> attempt + 1,
                  via |-> "signal"]
            ELSE canvasZone(site, attempt + 1)
  ELSE [zone |-> "Zone Selection Timeout", clicks |-> attempt, via |-> "exhausted"]

\* selectZone that reports a canvas without a signal as an unknown zone
selectZoneNoTimeout(site, closed, k) ==
  IF closed THEN [raised |-> FALSE, value |-> "Unknown Zone", via |-> "fault"]
  ELSE IF site.canvas = "none"
       THEN [raised |-> FALSE, value |-> selectHtmlZone(site, k).zone,
             via |-> selectHtmlZone(site, k).via]
  ELSE IF site.canvas = "nobox"
       THEN [raised |-> FALSE, value |-> "Unknown Zone", via |-> "nobox"]
  ELSE [raised |-> FALSE,
        value |-> IF canvasZone(site, 0).via = "exhausted" THEN "Unknown Zone"
                  ELSE canvasZone(site, 0).zone,
        via |-> canvasZone(site, 0).via]

\* BookingHandler.selectZone; via names the return statement taken ("nobox" is
\* the return of line 63)
selectZone(site, closed, k) ==
  IF closed THEN [raised |-> FALSE, value |-> "Unknown Zone", via |-> "fault"]
  ELSE IF site.canvas = "none"
       THEN [raised |-> FALSE, value |-> selectHtmlZone(site, k).zone,
             via |-> selectHtmlZone(site, k).via]
  ELSE IF site.canvas = "nobox"
       THEN [raised |-> FALSE, value |-> "Unknown Zone", via |-> "nobox"]
  ELSE [raised |-> FALSE, value |-> canvasZone(site, 0).zone,
        via |-> canvasZone(site, 0).via]

RECURSIVE canvasSeats(_, _, _)
\* the for loop of tryCanvasSelection from click i (0-based) with `selected`
canvasSeats(site, i, selected) ==
  IF i < canvasClickAttempts /\ Len(selected) < maxSeats
  THEN LET seatInfo == IF i + 1 <= Len(site.tips) THEN site.tips[i + 1] ELSE ""
       IN  IF seatInfo # "" /\ seatInfo \notin Range(selected)
           THEN canvasSeats(site, i + 1, Append(selected, seatInfo))
           ELSE canvasSeats(site, i + 1, selected)
  ELSE selected

\* BookingHandler.tryCanvasSelection
tryCanvasSelection(site, closed) ==
  IF closed \/ site.canvas # "ok" THEN <<>> ELSE canvasSeats(site, 0, <<>>)

RECURSIVE clickSeats(_, _, _)
\* the inner for loop of tryClickableSeats over one selector's elements
clickSeats(seats, i, maxToSelect) ==
  IF i < maxToSelect
  THEN (IF seats[i + 1] THEN <<SeatLabels[i + 1]>> ELSE <<>>)
       \o clickSeats(seats, i + 1, maxToSelect)
  ELSE <<>>

RECURSIVE clickableFromNoCap(_, _)
\* the selector loop that clicks every element found, whatever maxSeats is
clickableFromNoCap(site, s) ==
  IF s > Len(site.clickable) THEN <<>>
  ELSE LET seats == site.clickable[s]
           selectedSeats == clickSeats(seats, 0, Len(seats))
       IN  IF Len(seats) > 0 /\ Len(selectedSeats) > 0 THEN selectedSeats
           ELSE clickableFromNoCap(site, s + 1)

RECURSIVE clickableFrom(_, _)
\* the selector loop of tryClickableSeats from selector s (1-based)
clickableFrom(site, s) ==
  IF s > Len(site.clickable) THEN <<>>
  ELSE LET seats == site.clickable[s]
           selectedSeats == clickSeats(seats, 0, Min(Len(seats), maxSeats))
       IN  IF Len(seats) > 0 /\ Len(selectedSeats) > 0 THEN selectedSeats
           ELSE clickableFrom(site, s + 1)

\* BookingHandler.tryClickableSeats
tryClickableSeats(site, closed) ==
  IF closed THEN <<>> ELSE clickableFrom(site, 1)

\* BookingHandler.tryQuantityInput
tryQuantityInput(site, closed) ==
  IF closed THEN 0 ELSE IF site.quantity THEN maxSeats ELSE 0

\* `${quantitySeats} ticket(s)`
QuantityLabels ==
  <<"1 ticket(s)", "2 ticket(s)", "3 ticket(s)", "4 ticket(s)", "5 ticket(s)",
    "6 ticket(s)">>

\* selectSeats that prefers the clickable seat elements to the canvas
selectSeatsClickableFirst(site, closed) ==
  LET canvasSel == tryCanvasSelection(site, closed)
      clickableSel == tryClickableSeats(site, closed)
      quantitySeats == tryQuantityInput(site, closed)
  IN  IF Len(clickableSel) > 0
      THEN [raised |-> FALSE, value |-> clickableSel, ran |-> <<"clickable">>]
      ELSE IF Len(canvasSel) > 0
      THEN [raised |-> FALSE, value |-> canvasSel, ran |-> <<"clickable", "canvas">>]
      ELSE IF quantitySeats > 0
           THEN [raised |-> FALSE, value |-> <<QuantityLabels[quantitySeats]>>,
                 ran |-> <<"clickable", "canvas", "quantity">>]
      ELSE [raised |-> FALSE, value |-> <<>>,
            ran |-> <<"clickable", "canvas", "quantity">>]

\* BookingHandler.selectSeats; ran lists the strategies called, in call order
selectSeats(site, closed) ==
  LET canvasSel == tryCanvasSelection(site, closed)
      clickableSel == tryClickableSeats(site, closed)
      quantitySeats == tryQuantityInput(site, closed)
  IN  IF Len(canvasSel) > 0
      THEN [raised |-> FALSE, value |-> canvasSel, ran |-> <<"canvas">>]
      ELSE IF Len(clickableSel) > 0
      THEN [raised |-> FALSE, value |-> clickableSel, ran |-> <<"canvas", "clickable">>]
      ELSE IF quantitySeats > 0
           THEN [raised |-> FALSE, value |-> <<QuantityLabels[quantitySeats]>>,
                 ran |-> <<"canvas", "clickable", "quantity">>]
      ELSE [raised |-> FALSE, value |-> <<>>,
            ran |-> <<"canvas", "clickable", "quantity">>]

\* confirmBooking that lets the fault of a closed session reach the caller
confirmBookingThrows(site, closed) ==
  IF closed THEN [raised |-> TRUE, value |-> FALSE]
  ELSE [raised |-> FALSE, value |-> site.confirmBtn]

\* BookingHandler.confirmBooking
confirmBooking(site, closed) ==
  IF closed THEN [raised |-> FALSE, value |-> FALSE]
  ELSE [raised |-> FALSE, value |-> site.confirmBtn]

\* the catch payload of extractTicketDetails
FailedDetails ==
  [ticketIds |-> <<>>, details |-> <<"Failed to extract details">>, firstTicketId |-> "N/A"]

\* extractTicketDetails that lets its fault reach the caller
extractTicketDetailsThrows(site, closed) ==
  IF closed \/ ~site.summary THEN [raised |-> TRUE, value |-> FailedDetails]
  ELSE [raised |-> FALSE,
        value |-> [ticketIds |-> site.ticketIds, details |-> site.items,
                   firstTicketId |-> "N/A"]]

\* BookingHandler.extractTicketDetails; details is the list of joined lines
extractTicketDetails(site, closed) ==
  IF closed \/ ~site.summary THEN [raised |-> FALSE, value |-> FailedDetails]
  ELSE [raised |-> FALSE,
        value |-> [ticketIds |-> site.ticketIds,
                   details |-> IF Len(site.items) > 0 THEN site.items
                               ELSE IF Len(site.seatLines) > 0 THEN site.seatLines
                               ELSE <<"Check cart manually">>,
                   firstTicketId |-> IF Len(site.ticketIds) > 0 THEN site.ticketIds[1]
                                     ELSE "N/A"]]

\* ------------------------------------------------------------ AccountManager
\* validateAccount without the email check
validateAccountNoEmail(account) ==
  account.hasCookies /\
  \E i \in 1..Len(account.cookies) : account.cookies[i].name = "token"

\* AccountManager.validateAccount
validateAccount(account) ==
  IF account.email = "" \/ ~account.hasCookies THEN FALSE
  ELSE \A name \in {"token"} :
         \E i \in 1..Len(account.cookies) : account.cookies[i].name = name

\* AccountManager.loadAccounts on the accounts file
loadAccounts(f) ==
  IF ~f.exists THEN <<>>
  ELSE IF ~f.parses THEN <<>>
  ELSE f.accounts

\* saveAccount that adds the new entry without removing the old one
saveAccountAppend(f, email, cookies, at, writeOk) ==
  IF f.exists /\ ~f.parses THEN [ok |-> FALSE, file |-> f]
  ELSE LET accounts == IF f.exists THEN f.accounts ELSE <<>>
           added == Append(accounts, [email |-> email, hasCookies |-> TRUE,
                                      cookies |-> cookies, addedAt |-> at])
       IN  IF writeOk
           THEN [ok |-> TRUE,
                 file |-> [exists |-> TRUE, parses |-> TRUE, accounts |-> added]]
           ELSE [ok |-> FALSE, file |-> f]

\* AccountManager.saveAccount on the accounts file f: [ok, file]. `at` is the
\* time of new Date(), writeOk whether fs.writeFileSync succeeds; a file that
\* does not parse, or holds no accounts list, raises into the catch
saveAccount(f, email, cookies, at, writeOk) ==
  IF f.exists /\ ~f.parses THEN [ok |-> FALSE, file |-> f]
  ELSE LET accounts == IF f.exists THEN f.accounts ELSE <<>>
           other(acc) == acc.email # email
           added == Append(SelectSeq(accounts, other),
                           [email |-> email, hasCookies |-> TRUE,
                            cookies |-> cookies, addedAt |-> at])
       IN  IF writeOk
           THEN [ok |-> TRUE,
                 file |-> [exists |-> TRUE, parses |-> TRUE, accounts |-> added]]
           ELSE [ok |-> FALSE, file |-> f]

\* ------------------------------------------------------------------- state
VARIABLES
  config,        \* telegram token/chat id and target URL present, proxy list
  file,          \* accounts.json
  site,          \* the target page
  sink,          \* "up": the Telegram API takes bot.sendMessage; "down": it rejects
  now,           \* the wall clock new Date() reads, in ticks
  lastSave,      \* the latest saveAccount call: its arguments and result, the
                 \* number of calls made and of calls that returned true
  startPc,       \* where start() stands
  validAccounts, \* start()'s validAccounts
  exitCode,      \* the process's exit code, NoExit while it runs
  startNotes,    \* notifyStart messages: the account count reported, and sent or not
  clusterUp,     \* the pool exists and is not closed
  taskFunction,  \* cluster.task(...) has bound monitorTask
  jobQueue,      \* the pool's queue
  qi,            \* forEach index (1-based) of the next account to queue
  tasks          \* the jobs taken from the queue, in order, each a task record

vars == <<config, file, site, sink, now, lastSave, startPc, validAccounts, exitCode, startNotes,
          clusterUp, taskFunction, jobQueue, qi, tasks>>

env == <<config, file, site, sink, now, lastSave>>

NoInfo == [ticketIds |-> <<>>, details |-> <<>>, firstTicketId |-> ""]

\* the proxy the session of a queue item goes through: the browser is launched
\* with config.puppeteer, whose args name no proxy server, the worker opens a
\* plain browser context, and monitorTask applies data.proxy to nothing
sessionProxy(item) == NoProxy

\* the task the pool starts for a queue item: monitorTask({page, data}) at
\* line 8. page is the session the worker hands over, handlerPage the page the
\* BookingHandler of line 31 is built on (0: not built yet), nav what the
\* page.goto of line 25 did ("": not called, "ok", "failed")
newTask(item, page) ==
  [email |-> item.email, cookies |-> item.cookies, proxy |-> item.proxy,
   page |-> page, handlerPage |-> 0, rejected |-> FALSE, nav |-> "",
   sessionProxy |-> sessionProxy(item),
   pc |-> "setup", job |-> "running", elapsed |-> 0, holdLeft |-> 0,
   found |-> FALSE, clicked |-> FALSE, slept |-> FALSE, buttonSeen |-> FALSE,
   zone |-> "", seats |-> <<>>, ticketInfo |-> NoInfo,
   notes |-> <<>>, trace |-> <<>>]

\* the job of an item a worker takes: monitorTask({page, data}) if the task
\* function is bound; with none bound the pool fails the job ('No task function
\* defined!') and monitorTask never runs for the item
startTask(item, page, bound) ==
  IF bound THEN newTask(item, page)
  ELSE [newTask(item, page) EXCEPT !.pc = "notask", !.job = "failed"]

\* the session of a task is closed once the pool has ended its job
closed(tk) == tk.job # "running"

\* process.exit ends the task with the process: what stays is what it has sent
killed(tk) ==
  [newTask([email |-> tk.email, cookies |-> tk.cookies, proxy |-> tk.proxy], tk.page)
     EXCEPT !.pc = "killed", !.job = "killed", !.notes = tk.notes,
            !.rejected = tk.rejected]

\* the operations invoked since clickBookButton returned true (kept to MaxTrace)
Log(tk, op) ==
  IF tk.found /\ Len(tk.trace) < MaxTrace
  THEN [tk EXCEPT !.trace = Append(@, op)] ELSE tk

\* monitorTask returns: the pool ends the job if it has not timed it out
returned(tk) ==
  [tk EXCEPT !.pc = "returned",
             !.job = IF @ = "running" THEN "done" ELSE @]

\* ------------------------------------------------------------ notifications
\* TelegramNotifier.notifyStart: a rejected sendMessage is caught and logged
notifyStart(notes, accountCount) ==
  Append(notes, [accountCount |-> accountCount, sent |-> sink = "up"])

\* TelegramNotifier.notifySuccess: the message, with the fields it formats; a
\* rejected sendMessage is caught and logged (sent = FALSE)
notifySuccess(tk, data) ==
  [tk EXCEPT !.notes = Append(@, [kind |-> "Success", email |-> data.email,
                                  zone |-> data.zone, seatCount |-> data.seatCount,
                                  ticketDetails |-> data.ticketDetails,
                                  proxy |-> data.proxy,
                                  firstTicketId |-> data.firstTicketId,
                                  error |-> "", sent |-> sink = "up"])]

\* TelegramNotifier.notifyError
notifyError(tk, email, error) ==
  [tk EXCEPT !.notes = Append(@, [kind |-> "Error", email |-> email,
                                  zone |-> "", seatCount |-> 0,
                                  ticketDetails |-> <<>>, proxy |-> "",
                                  firstTicketId |-> "", error |-> error,
                                  sent |-> sink = "up"])]

\* ---------------------------------------------------------------- monitorTask
\* setCookies: [ok, applied]
setCookies(cookies, isClosed) ==
  IF Len(cookies) = 0 THEN [ok |-> FALSE, applied |-> 0]
  ELSE LET validCookies ==
             SelectSeq2(cookies, {c \in Cookies :
                                    c.name # "" /\ c.value # "" /\ c.domain # ""})
           rejects == Len(validCookies) > 0 /\
                      (isClosed \/ \E i \in 1..Len(validCookies) : validCookies[i].malformed)
       IN  IF rejects THEN [ok |-> FALSE, applied |-> 0]
           ELSE [ok |-> TRUE, applied |-> Len(validCookies)]

\* the outer catch of monitorTask (lines 79-82)
taskError(tk, message) == returned(notifyError(tk, tk.email, message))

\* the inner catch of the poll loop (lines 72-76): sleep checkInterval, loop
pollCatch(tk) == [tk EXCEPT !.pc = "poll", !.slept = TRUE]

\* line 16: setupPage; page.setRequestInterception rejects on a closed session
afterSetup(tk) ==
  IF ~closed(tk) THEN [tk EXCEPT !.pc = "cookies"]
  ELSE taskError(tk, "Session closed")

\* lines 19-21
afterCookies(tk) ==
  IF ~setCookies(tk.cookies, closed(tk)).ok THEN returned(tk)
  ELSE [tk EXCEPT !.pc = "goto"]

\* monitorTask that starts polling whatever page.goto did
afterGotoPolls(tk, ok) == [tk EXCEPT !.pc = "poll", !.handlerPage = tk.page]

\* lines 25-32: page.goto; ok = the navigation resolves within 60000 ms. On a
\* closed session it rejects at once, otherwise it fails or times out
afterGoto(tk, ok) ==
  IF closed(tk) THEN taskError(tk, "Session closed")
  ELSE IF ok THEN [tk EXCEPT !.pc = "poll", !.handlerPage = tk.page]
  ELSE taskError(tk, "Navigation timeout")

\* lines 34-39 and 72-77: one poll iteration, r the result of clickBookButton
afterClick(tk, r) ==
  LET c == [Log(tk, "clickBookButton") EXCEPT !.clicked = TRUE, !.slept = FALSE]
  IN  IF r.raised THEN pollCatch(c)
      ELSE IF r.value THEN [c EXCEPT !.pc = "zone", !.found = TRUE]
      ELSE [c EXCEPT !.pc = "poll"]

\* line 43
afterZone(tk, r) ==
  LET c == Log(tk, "selectZone")
  IN  IF r.raised THEN pollCatch(c) ELSE [c EXCEPT !.zone = r.value, !.pc = "seats"]

\* monitorTask that goes back to polling when no seat was selected
afterSeatsRetry(tk, r) ==
  LET c == Log(tk, "selectSeats")
  IN  IF r.raised \/ r.value = <<>> THEN [c EXCEPT !.pc = "poll"]
      ELSE [c EXCEPT !.seats = r.value, !.pc = "confirm"]

\* line 44
afterSeats(tk, r) ==
  LET c == Log(tk, "selectSeats")
  IN  IF r.raised THEN pollCatch(c) ELSE [c EXCEPT !.seats = r.value, !.pc = "confirm"]

\* line 45: the result of confirmBooking is not kept
afterConfirm(tk, r) ==
  LET c == Log(tk, "confirmBooking")
  IN  IF r.raised THEN pollCatch(c) ELSE [c EXCEPT !.pc = "extract"]

\* line 48
afterExtract(tk, r) ==
  LET c == Log(tk, "extractTicketDetails")
  IN  IF r.raised THEN pollCatch(c) ELSE [c EXCEPT !.ticketInfo = r.value, !.pc = "notify"]

\* monitorTask with a notifySuccess that raises when the send is rejected:
\* the inner catch takes it and the loop polls again
afterNotifyThrows(tk) ==
  LET data == [email |-> tk.email, zone |-> tk.zone, seatCount |-> Len(tk.seats),
               ticketDetails |-> IF tk.ticketInfo.details # <<>> THEN tk.ticketInfo.details
                                 ELSE IF tk.seats # <<>> THEN tk.seats
                                 ELSE <<"Check cart">>,
               proxy |-> proxyInfo(tk.proxy),
               firstTicketId |-> tk.ticketInfo.firstTicketId]
      c == Log(notifySuccess(Log(tk, "notifySuccess"), data), "hold")
  IN  IF sink = "down" THEN pollCatch(notifySuccess(Log(tk, "notifySuccess"), data))
      ELSE [c EXCEPT !.pc = "hold", !.holdLeft = paymentHoldTime]

\* lines 51-67: the Success notification, ticketFound = true, the hold begins
afterNotify(tk) ==
  LET data == [email |-> tk.email, zone |-> tk.zone, seatCount |-> Len(tk.seats),
               ticketDetails |-> IF tk.ticketInfo.details # <<>> THEN tk.ticketInfo.details
                                 ELSE IF tk.seats # <<>> THEN tk.seats
                                 ELSE <<"Check cart">>,
               proxy |-> proxyInfo(tk.proxy),
               firstTicketId |-> tk.ticketInfo.firstTicketId]
      c == Log(notifySuccess(Log(tk, "notifySuccess"), data), "hold")
  IN  [c EXCEPT !.pc = "hold", !.holdLeft = paymentHoldTime]

\* monitorTask that uses the page once more after the hold, outside the poll
\* loop's handler: on a session the pool has closed the fault reaches the outer
\* catch
afterHoldUsesPage(tk) ==
  IF closed(tk) THEN taskError(tk, "Session closed") ELSE returned(tk)

\* line 69: the hold timer has fired
afterHold(tk) == returned(tk)

\* --------------------------------------------------------------------- start
\* proxy assignment that does not cycle: accounts past the list get no proxy
assignProxyNoCycle(proxyList, index) ==
  IF index + 1 <= Len(proxyList) THEN proxyList[index + 1] ELSE NoProxy

\* proxies[index % proxies.length] of line 87, index 0-based; [null] is <<NoProxy>>
assignProxy(proxyList, index) ==
  LET proxies == IF Len(proxyList) > 0 THEN proxyList ELSE <<NoProxy>>
  IN  proxies[(index % Len(proxies)) + 1]

\* the item of lines 98-103 for validAccounts[index], index 0-based
queueItem(valid, proxyList, index) ==
  [email |-> valid[index + 1].email, cookies |-> valid[index + 1].cookies,
   proxy |-> assignProxy(proxyList, index)]

\* start() that queues every loaded account
filterValidAll(accounts) == accounts

\* accounts.filter(acc => accountManager.validateAccount(acc)), lines 44-46
filterValid(accounts) ==
  SelectSeq2(accounts, {a \in Range(accounts) : validateAccount(a)})

\* start() without the TARGET_URL check
startFailsNoUrl(cfg, accounts, valid) ==
  \/ ~cfg.token \/ ~cfg.chatId
  \/ Len(accounts) = 0
  \/ Len(valid) = 0

\* lines 23-54: does start() call process.exit(1)
startFails(cfg, accounts, valid) ==
  \/ ~cfg.token \/ ~cfg.chatId
  \/ ~cfg.url
  \/ Len(accounts) = 0
  \/ Len(valid) = 0

\* lines 19-62: the checks of start() up to the notifier, all synchronous
StartValidate ==
  /\ startPc = "start" /\ exitCode = NoExit
  /\ LET accounts == loadAccounts(file)
         valid == filterValid(accounts)
     IN  IF startFails(config, accounts, valid)
         THEN /\ exitCode' = 1
              /\ startPc' = "exited"
              /\ UNCHANGED validAccounts
         ELSE /\ validAccounts' = valid
              /\ startPc' = "notifyStart"
              /\ UNCHANGED exitCode
  /\ UNCHANGED <<env, startNotes, clusterUp, taskFunction, jobQueue, qi, tasks>>

\* lines 65-69: notifier.notifyStart(validAccounts.length)
NotifyStart ==
  /\ startPc = "notifyStart" /\ exitCode = NoExit
  /\ startNotes' = notifyStart(startNotes, Len(validAccounts))
  /\ startPc' = "launch"
  /\ UNCHANGED <<env, validAccounts, exitCode, clusterUp, taskFunction, jobQueue, qi, tasks>>

\* lines 72-81: Cluster.launch resolves
LaunchCluster ==
  /\ startPc = "launch" /\ exitCode = NoExit
  /\ clusterUp' = TRUE
  /\ qi' = 1
  /\ startPc' = "queue"
  /\ UNCHANGED <<env, validAccounts, exitCode, startNotes, taskFunction, jobQueue, tasks>>

\* lines 72 and 132-135: Cluster.launch rejects, start().catch exits with 1
LaunchFails ==
  /\ startPc = "launch" /\ exitCode = NoExit
  /\ exitCode' = 1
  /\ startPc' = "exited"
  /\ UNCHANGED <<env, validAccounts, startNotes, clusterUp, taskFunction, jobQueue, qi, tasks>>

\* lines 86-104: one round of validAccounts.forEach
QueueAccount ==
  /\ startPc = "queue" /\ exitCode = NoExit
  /\ qi <= Len(validAccounts)
  /\ jobQueue' = Append(jobQueue, queueItem(validAccounts, config.proxies, qi - 1))
  /\ qi' = qi + 1
  /\ UNCHANGED <<env, startPc, validAccounts, exitCode, startNotes, clusterUp,
                 taskFunction, tasks>>

\* line 107: cluster.task(monitorTask), in the same synchronous run as the forEach
SetTask ==
  /\ startPc = "queue" /\ exitCode = NoExit
  /\ qi > Len(validAccounts)
  /\ taskFunction' = TRUE
  /\ startPc' = "idle"
  /\ UNCHANGED <<env, validAccounts, exitCode, startNotes, clusterUp, jobQueue, qi, tasks>>

\* start() that closes the pool as soon as the queue is empty
ClusterIdleNoWait ==
  /\ startPc = "idle" /\ exitCode = NoExit
  /\ jobQueue = <<>>
  /\ clusterUp' = FALSE
  /\ startPc' = "completed"
  /\ UNCHANGED <<env, validAccounts, exitCode, startNotes, taskFunction, jobQueue, qi, tasks>>

\* lines 115-118: cluster.idle() resolves once the queue is empty and no job
\* runs, then cluster.close() and 'All tasks completed'
ClusterIdle ==
  /\ startPc = "idle" /\ exitCode = NoExit
  /\ jobQueue = <<>>
  /\ \A t \in 1..Len(tasks) : tasks[t].job # "running"
  /\ clusterUp' = FALSE
  /\ startPc' = "completed"
  /\ UNCHANGED <<env, validAccounts, exitCode, startNotes, taskFunction, jobQueue, qi, tasks>>

\* lines 115-119 done and every task function returned: nothing is pending and
\* the process ends by itself, with code 0
ProcessEnd ==
  /\ startPc = "completed" /\ exitCode = NoExit
  /\ \A t \in 1..Len(tasks) : tasks[t].pc = "returned"
  /\ exitCode' = 0
  /\ startPc' = "ended"
  /\ UNCHANGED <<env, validAccounts, startNotes, clusterUp, taskFunction, jobQueue, qi, tasks>>

\* lines 126-129: the SIGINT listener calls process.exit(0); the pool, its queue
\* and every task end with the process. The listener runs when the event loop
\* turns: not inside the synchronous run of lines 19-62, nor inside that of
\* lines 83-107
Sigint ==
  /\ exitCode = NoExit /\ startPc \notin {"start", "queue"}
  /\ exitCode' = 0
  /\ startPc' = "interrupted"
  /\ validAccounts' = <<>>
  /\ clusterUp' = FALSE
  /\ taskFunction' = FALSE
  /\ jobQueue' = <<>>
  /\ qi' = 1
  /\ tasks' = [t \in 1..Len(tasks) |-> killed(tasks[t])]
  /\ UNCHANGED <<env, startNotes>>

\* ---------------------------------------------------------------------- pool
\* a pool whose workers all hand the first session to their jobs
StartJobSharedPage ==
  /\ exitCode = NoExit /\ clusterUp /\ startPc # "queue"
  /\ jobQueue # <<>>
  /\ Cardinality({t \in 1..Len(tasks) : tasks[t].job = "running"}) < Len(validAccounts)
  /\ tasks' = Append(tasks, startTask(Head(jobQueue), 1, taskFunction))
  /\ jobQueue' = Tail(jobQueue)
  /\ UNCHANGED <<env, startPc, validAccounts, exitCode, startNotes, clusterUp,
                 taskFunction, qi>>

\* a pool whose workers take items while start() is still queueing
StartJobAnytime ==
  /\ exitCode = NoExit /\ clusterUp
  /\ jobQueue # <<>>
  /\ Cardinality({t \in 1..Len(tasks) : tasks[t].job = "running"}) < Len(validAccounts)
  /\ tasks' = Append(tasks, startTask(Head(jobQueue), Len(tasks) + 1, taskFunction))
  /\ jobQueue' = Tail(jobQueue)
  /\ UNCHANGED <<env, startPc, validAccounts, exitCode, startNotes, clusterUp,
                 taskFunction, qi>>

\* a worker takes the next item (maxConcurrency: validAccounts.length, line 75)
\* and opens a browser context and page of its own for the job (concurrency:
\* Cluster.CONCURRENCY_CONTEXT, line 74). Workers are launched and fed on later
\* turns of the event loop: none runs inside the synchronous run of lines
\* 86-107, which ends with cluster.task(monitorTask) called
StartJob ==
  /\ exitCode = NoExit /\ clusterUp /\ startPc # "queue"
  /\ jobQueue # <<>>
  /\ Cardinality({t \in 1..Len(tasks) : tasks[t].job = "running"}) < Len(validAccounts)
  /\ tasks' = Append(tasks, startTask(Head(jobQueue), Len(tasks) + 1, taskFunction))
  /\ jobQueue' = Tail(jobQueue)
  /\ UNCHANGED <<env, startPc, validAccounts, exitCode, startNotes, clusterUp,
                 taskFunction, qi>>

\* TickMs pass for a task: its hold timer runs down, and the pool's per-task
\* timeout (timeout: 300000, line 76) fires once the job has run that long: the
\* job ends with an error and its session is closed; the task function is not
\* stopped
tick(tk) ==
  LET ran == IF tk.job = "running" THEN tk.elapsed + TickMs ELSE tk.elapsed
  IN  [tk EXCEPT !.elapsed = ran,
                 !.job = IF @ = "running" /\ ran >= timeout THEN "timedout" ELSE @,
                 !.holdLeft = IF tk.pc = "hold" THEN Max(@ - TickMs, 0) ELSE @]

\* TickMs pass: no hold timer that is due is skipped
Tick ==
  /\ exitCode = NoExit
  /\ \E t \in 1..Len(tasks) :
       tasks[t].job = "running" \/ tasks[t].pc = "hold"
  /\ \A t \in 1..Len(tasks) :
       ~(tasks[t].pc = "hold" /\ tasks[t].holdLeft = 0)
  /\ tasks' = [t \in 1..Len(tasks) |-> tick(tasks[t])]
  /\ UNCHANGED <<env, startPc, validAccounts, exitCode, startNotes, clusterUp,
                 taskFunction, jobQueue, qi>>

\* a step of task t whose error path also ends every other task
StepAbortsSiblings(t, next) ==
  /\ exitCode = NoExit
  /\ tasks' = [s \in 1..Len(tasks) |->
                IF s = t THEN next
                ELSE IF Len(next.notes) > Len(tasks[t].notes) /\
                        next.notes[Len(next.notes)].kind = "Error"
                     THEN returned(tasks[s])
                     ELSE tasks[s]]
  /\ UNCHANGED <<env, startPc, validAccounts, exitCode, startNotes, clusterUp,
                 taskFunction, jobQueue, qi>>

\* one step of task t's monitorTask, the task record going from tk to next
Step(t, next) ==
  /\ exitCode = NoExit
  /\ tasks' = [tasks EXCEPT ![t] = next]
  /\ UNCHANGED <<env, startPc, validAccounts, exitCode, startNotes, clusterUp,
                 taskFunction, jobQueue, qi>>

\* setupPage lines 91-100: the request listener does not await request.abort()
\* and request.continue(); on a session closed while the navigation is in
\* flight the call rejects with nobody to catch it, and the unhandledRejection
\* listener of bot.js lines 122-124 logs it
RequestRejected(t) ==
  /\ tasks[t].pc = "goto" /\ closed(tasks[t]) /\ ~tasks[t].rejected
  /\ Step(t, [tasks[t] EXCEPT !.rejected = TRUE])

SetupPage(t) ==
  /\ tasks[t].pc = "setup"
  /\ Step(t, afterSetup(tasks[t]))

ApplyCookies(t) ==
  /\ tasks[t].pc = "cookies"
  /\ Step(t, afterCookies(tasks[t]))

Navigate(t) ==
  /\ tasks[t].pc = "goto"
  /\ \E ok \in BOOLEAN :
       Step(t, [afterGoto(tasks[t], ok)
                  EXCEPT !.nav = IF ok /\ ~closed(tasks[t]) THEN "ok" ELSE "failed"])

BookOutcomes == {"absent", "present", "clickFails"}

\* buttonSeen records that the book control has appeared to this task's session
Poll(t) ==
  /\ tasks[t].pc = "poll"
  /\ \E b \in BookOutcomes :
       Step(t, [afterClick(tasks[t], clickBookButton(closed(tasks[t]), b))
                  EXCEPT !.buttonSeen = @ \/ (b # "absent" /\ ~closed(tasks[t]))])

SelectZone(t) ==
  /\ tasks[t].pc = "zone"
  /\ \E k \in 1..Max(1, site.htmlZones) :
       Step(t, afterZone(tasks[t], selectZone(site, closed(tasks[t]), k)))

SelectSeats(t) ==
  /\ tasks[t].pc = "seats"
  /\ Step(t, afterSeats(tasks[t], selectSeats(site, closed(tasks[t]))))

ConfirmBooking(t) ==
  /\ tasks[t].pc = "confirm"
  /\ Step(t, afterConfirm(tasks[t], confirmBooking(site, closed(tasks[t]))))

ExtractTicketDetails(t) ==
  /\ tasks[t].pc = "extract"
  /\ Step(t, afterExtract(tasks[t], extractTicketDetails(site, closed(tasks[t]))))

NotifySuccess(t) ==
  /\ tasks[t].pc = "notify"
  /\ Step(t, afterNotify(tasks[t]))

HoldDone(t) ==
  /\ tasks[t].pc = "hold" /\ tasks[t].holdLeft = 0
  /\ Step(t, afterHold(tasks[t]))

\* the login tool (part_001 line 110) calls saveAccount(email, cookies); the
\* clock may have moved since the last call
SaveAccount(email, cookies, writeOk, d) ==
  /\ lastSave.calls < MaxSaves
  /\ now' = now + d
  /\ LET r == saveAccount(file, email, cookies, now', writeOk)
     IN  /\ file' = r.file
         /\ lastSave' = [calls |-> lastSave.calls + 1,
                         saved |-> lastSave.saved + (IF r.ok THEN 1 ELSE 0),
                         email |-> email, cookies |-> cookies, ok |-> r.ok]
  /\ UNCHANGED <<config, site, sink, startPc, validAccounts, exitCode, startNotes,
                 clusterUp, taskFunction, jobQueue, qi, tasks>>

\* -------------------------------------------------------------- specification
Configs ==
  [token : BOOLEAN, chatId : BOOLEAN, url : BOOLEAN, proxies : ProxyLists]

Files ==
  {[exists |-> FALSE, parses |-> FALSE, accounts |-> <<>>],
   [exists |-> TRUE, parses |-> FALSE, accounts |-> <<>>]}
  \cup {[exists |-> TRUE, parses |-> TRUE, accounts |-> l] :
          l \in UNION {AccountLists(n, CookieSets) : n \in 0..MaxAccounts}}

\* one account with a token cookie, as the login tool saves it
FilesTask ==
  {[exists |-> TRUE, parses |-> TRUE,
    accounts |-> <<[email |-> Emails[1], hasCookies |-> TRUE, cookies |-> c,
                    addedAt |-> 0]>>] :
     c \in CookieSetsTask}

NoSave == [calls |-> 0, saved |-> 0, email |-> "", cookies |-> <<>>, ok |-> FALSE]

InitState ==
  /\ now = 0
  /\ lastSave = NoSave
  /\ startPc = "start"
  /\ validAccounts = <<>>
  /\ exitCode = NoExit
  /\ startNotes = <<>>
  /\ clusterUp = FALSE
  /\ taskFunction = FALSE
  /\ jobQueue = <<>>
  /\ qi = 1
  /\ tasks = <<>>

\* several accounts on one site, with a sink that takes every message
Init ==
  /\ config \in Configs
  /\ file \in Files
  /\ site \in SitesOrch
  /\ sink = "up"
  /\ InitState

\* a single account on every site; the rejecting sink is met on BaseSite
InitTask ==
  /\ config \in {c \in Configs : c.token /\ c.chatId /\ c.url /\ Len(c.proxies) <= 1}
  /\ file \in FilesTask
  /\ site \in Sites
  /\ sink \in {"up", "down"}
  /\ sink = "down" => site = BaseSite
  /\ InitState

Next ==
  \/ StartValidate
  \/ NotifyStart
  \/ LaunchCluster
  \/ LaunchFails
  \/ QueueAccount
  \/ SetTask
  \/ ClusterIdle
  \/ ProcessEnd
  \/ Sigint
  \/ StartJob
  \/ Tick
  \/ \E t \in 1..Len(tasks) : RequestRejected(t)
  \/ \E t \in 1..Len(tasks) : SetupPage(t)
  \/ \E t \in 1..Len(tasks) : ApplyCookies(t)
  \/ \E t \in 1..Len(tasks) : Navigate(t)
  \/ \E t \in 1..Len(tasks) : Poll(t)
  \/ \E t \in 1..Len(tasks) : SelectZone(t)
  \/ \E t \in 1..Len(tasks) : SelectSeats(t)
  \/ \E t \in 1..Len(tasks) : ConfirmBooking(t)
  \/ \E t \in 1..Len(tasks) : ExtractTicketDetails(t)
  \/ \E t \in 1..Len(tasks) : NotifySuccess(t)
  \/ \E t \in 1..Len(tasks) : HoldDone(t)

Spec == Init /\ [][Next]_vars

\* the emails and credential sets the login tool saves
SaveEmails == {""} \cup {Emails[i] : i \in 1..MaxAccounts}

SaveCookies == {<<CkToken>>, <<CkSid, CkToken>>}

\* the account store before the bot runs: no file yet, a file that does not
\* parse, or an empty accounts list
InitStore ==
  /\ config \in {c \in Configs : c.token /\ c.chatId /\ c.url /\ c.proxies = <<>>}
  /\ file \in {f \in Files : f.accounts = <<>>}
  /\ site = BaseSite
  /\ sink = "up"
  /\ InitState

NextStore ==
  \E email \in SaveEmails, cookies \in SaveCookies, writeOk \in BOOLEAN, d \in 0..1 :
    SaveAccount(email, cookies, writeOk, d)

SpecStore == InitStore /\ [][NextStore]_vars

SpecTask == InitTask /\ [][Next]_vars

\* what the event loop and the clock guarantee: start() continues when its
\* awaited promise resolves, an idle worker takes a queued item, time passes,
\* and a timer that is due fires
Fairness ==
  /\ WF_vars(NotifyStart)
  /\ WF_vars(LaunchCluster)
  /\ WF_vars(StartJob)
  /\ WF_vars(Tick)
  /\ WF_vars(\E t \in 1..Len(tasks) : HoldDone(t))
  /\ WF_vars(ClusterIdle)

\* a complete configuration without proxies, and an accounts file (missing,
\* unparsable or listing up to MaxAccounts accounts) whose accounts are all valid
InitLive ==
  /\ config \in {c \in Configs : c.token /\ c.chatId /\ c.url /\ c.proxies = <<>>}
  /\ file \in {f \in Files : \A i \in 1..Len(f.accounts) : validateAccount(f.accounts[i])}
  /\ site \in SitesOrch
  /\ sink = "up"
  /\ InitState

SpecLive == InitLive /\ [][Next]_vars /\ Fairness

\* ===================================================================== claims
Tasks == 1..Len(tasks)

Kinds(tk, kind) == {i \in 1..Len(tk.notes) : tk.notes[i].kind = kind}

\* C1: every monitorTask that has returned has emitted exactly one terminal
\* notification, a Success or an Error, never both and never none.
C1_ExactlyOneTerminal ==
  \A t \in Tasks :
    tasks[t].pc = "returned" =>
      Cardinality(Kinds(tasks[t], "Success")) + Cardinality(Kinds(tasks[t], "Error")) = 1

\* C2: two consecutive clickBookButton calls are separated by a poll-interval
\* sleep: a task about to call clickBookButton again has slept since its last call.
C2_SleepBetweenClicks ==
  \A t \in Tasks :
    (tasks[t].pc = "poll" /\ tasks[t].clicked) => tasks[t].slept

AcquireOrder ==
  <<"selectZone", "selectSeats", "confirmBooking", "extractTicketDetails",
    "notifySuccess", "hold">>

\* how many operations of AcquireOrder have been invoked at each position
AcquireDone(pc) ==
  CASE pc = "zone" -> 0
    [] pc = "seats" -> 1
    [] pc = "confirm" -> 2
    [] pc = "extract" -> 3
    [] pc = "notify" -> 4
    [] pc = "hold" -> 6
    [] pc = "returned" -> 6
    [] OTHER -> 0 - 1

\* C3: once clickBookButton has returned true, the task invokes selectZone,
\* selectSeats, confirmBooking, extractTicketDetails, notifySuccess and the hold
\* sleep once each in that order, and never clickBookButton again.
C3_AcquireOnceInOrder ==
  \A t \in Tasks :
    tasks[t].found =>
      /\ AcquireDone(tasks[t].pc) >= 0
      /\ tasks[t].trace = SubSeq(AcquireOrder, 1, AcquireDone(tasks[t].pc))
      /\ Cardinality(Kinds(tasks[t], "Success")) =
           (IF AcquireDone(tasks[t].pc) >= 5 THEN 1 ELSE 0)

C3_Witness ==
  \E t \in Tasks :
    tasks[t].found /\ tasks[t].pc = "returned" /\ tasks[t].trace = AcquireOrder
    /\ tasks[t].seats = <<>>

ZoneSentinels ==
  {"Unknown Zone", "Zone Selection Timeout", "Direct Selection", "Zone Selected"}

\* C4: after availability is observed the task stays on the acquisition path and
\* emits a Success (never an Error) carrying whatever the sub-steps returned:
\* a sentinel zone, an empty seat list, a failed confirmation, the failure payload.
C4_SuccessWhateverOutcome ==
  \A t \in Tasks :
    tasks[t].found =>
      /\ tasks[t].pc \in {"zone", "seats", "confirm", "extract", "notify", "hold", "returned"}
      /\ Kinds(tasks[t], "Error") = {}
      /\ tasks[t].pc \in {"hold", "returned"} =>
           /\ Len(tasks[t].notes) = 1
           /\ tasks[t].notes[1].kind = "Success"
           /\ tasks[t].notes[1].zone = tasks[t].zone
           /\ tasks[t].notes[1].seatCount = Len(tasks[t].seats)
           /\ tasks[t].notes[1].firstTicketId = tasks[t].ticketInfo.firstTicketId

C4_Witness ==
  \E t \in Tasks :
    /\ tasks[t].pc = "hold" /\ tasks[t].job = "running"
    /\ site.canvas = "ok" /\ site.signalAt = 0
    /\ tasks[t].zone = "Zone Selection Timeout"
    /\ tasks[t].seats = <<>>
    /\ ~site.confirmBtn
    /\ tasks[t].ticketInfo = FailedDetails
    /\ Len(tasks[t].notes) = 1 /\ tasks[t].notes[1].kind = "Success"
    /\ tasks[t].notes[1].zone = "Zone Selection Timeout"

\* C5: while the book control has never appeared to a task that is past
\* navigation, every clickBookButton call has returned false, the task is still in
\* the poll loop and has emitted no notification; a page fault inside the
\* iteration counts as false and never reaches the task's error path.
C5_PollsWithoutNotification ==
  \A t \in Tasks :
    (~tasks[t].buttonSeen /\ tasks[t].pc \notin {"setup", "cookies", "goto"}
       /\ (tasks[t].clicked \/ tasks[t].pc = "poll")) =>
      /\ tasks[t].pc = "poll"
      /\ ~tasks[t].found
      /\ tasks[t].notes = <<>>

C5_Witness ==
  \E t \in Tasks :
    /\ ~tasks[t].buttonSeen /\ tasks[t].clicked /\ tasks[t].pc = "poll"
    /\ tasks[t].job = "running" /\ tasks[t].notes = <<>>

\* C6: a session that is open while its task holds after Success stays open as
\* long as hold time remains: the pool's per-task timeout does not end it.
C6_HoldNotCutShort ==
  [][\A t \in Tasks :
       (tasks[t].pc = "hold" /\ tasks[t].holdLeft > 0 /\ tasks[t].job = "running")
         => (tasks'[t].job = "running" \/ exitCode' # NoExit)]_vars

\* ------------------------------------------------------------- orchestrator
Dispatched == startPc \in {"idle", "completed"}

\* every item start() has queued, in queue order: those taken, then those waiting
AllItems ==
  [k \in 1..(Len(tasks) + Len(jobQueue)) |->
     IF k <= Len(tasks)
     THEN [email |-> tasks[k].email, cookies |-> tasks[k].cookies, proxy |-> tasks[k].proxy]
     ELSE jobQueue[k - Len(tasks)]]

Loaded == loadAccounts(file)

ValidIdx == {i \in 1..Len(Loaded) : validateAccount(Loaded[i])}

\* C7: after start() has dispatched, the items queued are exactly one per loaded
\* account that validateAccount accepts, each with that account's email and
\* cookies; the queue size is the number of valid accounts.
C7_QueueMatchesValid ==
  Dispatched =>
    /\ Len(AllItems) = Cardinality(ValidIdx)
    /\ (tasks = <<>> => Len(jobQueue) = Cardinality(ValidIdx))
    /\ \A i \in ValidIdx :
         Cardinality({k \in 1..Len(AllItems) :
                        /\ AllItems[k].email = Loaded[i].email
                        /\ AllItems[k].cookies = Loaded[i].cookies}) = 1
    /\ \A k \in 1..Len(AllItems) :
         \E i \in ValidIdx : AllItems[k].email = Loaded[i].email

C7_Witness ==
  /\ startPc = "idle" /\ tasks = <<>>
  /\ Len(jobQueue) = 1 /\ Len(Loaded) = 2
  /\ jobQueue[1].email = Loaded[2].email

HasTokenRecord(account) ==
  \E i \in 1..Len(account.cookies) : account.cookies[i].name = "token"

Validated == startPc \notin {"start", "exited", "interrupted"}

C9_RoundRobinProxies ==
  /\ Dispatched =>
       \A k \in 1..Len(AllItems) :
         AllItems[k].proxy =
           (IF Len(config.proxies) = 0 THEN NoProxy
            ELSE config.proxies[((k - 1) % Len(config.proxies)) + 1])
  /\ \A t \in Tasks : \A i \in Kinds(tasks[t], "Success") :
       /\ Len(config.proxies) = 0 => tasks[t].notes[i].proxy = "Direct"
       /\ Len(config.proxies) > 0 => tasks[t].notes[i].proxy = tasks[t].proxy.host

C9_Witness ==
  /\ Dispatched /\ Len(config.proxies) = 1 /\ Len(AllItems) = 2
  /\ AllItems[1].proxy = Proxy1 /\ AllItems[2].proxy = Proxy1

BadConfig == ~config.token \/ ~config.chatId \/ ~config.url

NoValidAccount ==
  \A i \in 1..Len(Loaded) :
    Loaded[i].email = "" \/ ~Loaded[i].hasCookies \/ ~HasTokenRecord(Loaded[i])

\* C10: with the notification target or the target URL missing, or no valid
\* account, or a failed pool construction, start() has exited with code 1, and
\* at that point nothing is queued, no task function is bound, no task has started.
C10_FatalBeforeAnyTask ==
  /\ ((BadConfig \/ NoValidAccount) /\ startPc # "start") =>
       (startPc = "exited" /\ exitCode = 1)
  /\ startPc = "exited" =>
       (exitCode = 1 /\ jobQueue = <<>> /\ tasks = <<>> /\ ~taskFunction)
  /\ exitCode = 1 => startPc = "exited"

C10_Witness ==
  /\ exitCode = 1 /\ config.token /\ config.chatId /\ ~config.url
  /\ ~NoValidAccount

\* ------------------------------------------------------------- selectZone
\* the call of selectZone that task t makes in this step, with the pick k
ZoneCall(t, k) ==
  /\ tasks[t].pc = "zone" /\ tasks'[t].pc = "seats"
  /\ tasks'[t].zone = selectZone(site, closed(tasks[t]), k).value

\* C11 as stated: every return of selectZone is one of three: a confirmation
\* signal was observed, the attempt bound was exhausted with "Zone Selection
\* Timeout", or a fault occurred with "Unknown Zone".
C11_ThreeOutcomes ==
  [][\A t \in Tasks : \A k \in 1..Max(1, site.htmlZones) :
       ZoneCall(t, k) =>
         LET r == selectZone(site, closed(tasks[t]), k)
         IN  \/ r.via = "signal"
             \/ r.via = "exhausted" /\ r.value = "Zone Selection Timeout"
             \/ r.via = "fault" /\ r.value = "Unknown Zone"]_vars

\* C11 amended: every return of selectZone is exactly one of six: signal
\* observed on the canvas (the extracted name), attempt bound exhausted ("Zone
\* Selection Timeout"), fault ("Unknown Zone"), canvas without a bounding box
\* ("Unknown Zone", no fault), no canvas and no zone element ("Direct
\* Selection"), no canvas and a zone element clicked (the extracted name, no
\* signal tested).
C11_SixOutcomes ==
  [][\A t \in Tasks : \A k \in 1..Max(1, site.htmlZones) :
       ZoneCall(t, k) =>
         LET r == selectZone(site, closed(tasks[t]), k)
             names == Range(ZoneLabels) \cup {"Dialog title", "Zone Selected"}
         IN  /\ ~r.raised
             /\ r.via \in {"signal", "exhausted", "fault", "nobox", "nozones", "html"}
             /\ (r.via = "exhausted" <=> r.value = "Zone Selection Timeout")
             /\ (r.via \in {"fault", "nobox"} <=> r.value = "Unknown Zone")
             /\ (r.via = "nozones" <=> r.value = "Direct Selection")
             /\ (r.via \in {"signal", "html"} <=> r.value \in names)
             /\ (r.via = "signal" =>
                   site.canvas = "ok" /\ site.signalAt \in 1..maxAttempts)
             /\ (r.via = "exhausted" =>
                   site.canvas = "ok" /\ site.signalAt \notin 1..maxAttempts)
             /\ (r.via \in {"nozones", "html"} => site.canvas = "none")
             /\ (r.via = "fault" =>
                   closed(tasks[t]) \/ site.zoneFault \/ site.evalFault # 0)]_vars

\* selectZone has returned "Direct Selection" on an open session
C11_Witness ==
  \E t \in Tasks :
    /\ tasks[t].pc = "seats" /\ tasks[t].job = "running" /\ tasks[t].elapsed = 0
    /\ site.canvas = "none" /\ site.htmlZones = 0
    /\ tasks[t].zone = "Direct Selection"

\* ------------------------------------------------------------ selectSeats
\* the call of selectSeats that task t makes in this step
SeatsCall(t) == tasks[t].pc = "seats" /\ tasks'[t].pc = "confirm"

StrategyOrder == <<"canvas", "clickable", "quantity">>

\* C12: selectSeats calls the canvas, clickable and quantity strategies in that
\* order, stops at the first that yields a result and returns that result; it
\* returns the empty list exactly when all three found nothing.
C12_FirstStrategyWins ==
  [][\A t \in Tasks :
       SeatsCall(t) =>
         LET r == selectSeats(site, closed(tasks[t]))
             c == tryCanvasSelection(site, closed(tasks[t]))
             k == tryClickableSeats(site, closed(tasks[t]))
             q == tryQuantityInput(site, closed(tasks[t]))
             n == Len(r.ran)
         IN  /\ tasks'[t].seats = r.value
             /\ n \in 1..3 /\ r.ran = SubSeq(StrategyOrder, 1, n)
             /\ (n = 1 => c # <<>> /\ r.value = c)
             /\ (n = 2 => c = <<>> /\ k # <<>> /\ r.value = k)
             /\ (n = 3 => c = <<>> /\ k = <<>> /\
                          r.value = (IF q > 0 THEN <<QuantityLabels[q]>> ELSE <<>>))
             /\ (r.value = <<>> <=> (c = <<>> /\ k = <<>> /\ q = 0))]_vars

\* the canvas yields seats on a page that also has clickable seats and a
\* quantity input: the canvas result is returned
C12_Witness ==
  \E t \in Tasks :
    /\ tasks[t].pc = "confirm" /\ tasks[t].job = "running" /\ tasks[t].elapsed = 0
    /\ site.canvas = "ok" /\ site.tips # <<>> /\ site.clickable # <<>> /\ site.quantity
    /\ tasks[t].seats = tryCanvasSelection(site, FALSE)
    /\ tasks[t].seats # <<>>
    /\ tasks[t].seats # tryClickableSeats(site, FALSE)

\* C13: the list selectSeats returned to a task never holds more than
\* config.bot.maxSeats labels, whichever strategy produced it.
C13_AtMostMaxSeats ==
  \A t \in Tasks :
    /\ Len(tasks[t].seats) <= maxSeats
    /\ Len(selectSeats(site, closed(tasks[t])).value) <= maxSeats

\* six clickable seats were found on an open session and maxSeats of them taken
C13_Witness ==
  \E t \in Tasks :
    /\ tasks[t].pc = "confirm" /\ tasks[t].job = "running" /\ tasks[t].elapsed = 0
    /\ site.canvas = "none"
    /\ \E s \in 1..Len(site.clickable) : Len(site.clickable[s]) > maxSeats
    /\ Len(tasks[t].seats) = maxSeats

\* -------------------------------------------------------------- setCookies
\* a non-empty credential set whose every record lacks a name, value or domain
NoValidRecord(cookies) ==
  /\ Len(cookies) > 0
  /\ \A i \in 1..Len(cookies) :
       cookies[i].name = "" \/ cookies[i].value = "" \/ cookies[i].domain = ""

\* C14: on a non-empty credential set without any valid record setCookies
\* reports failure, with zero cookies applied: a task that has called it (and
\* has not failed in setupPage before) has returned at lines 19-21 and never
\* goes on to navigate.
C14_NoValidRecordFails ==
  \A t \in Tasks :
    (/\ NoValidRecord(tasks[t].cookies)
     /\ tasks[t].pc \notin {"setup", "cookies", "killed"}
     /\ Kinds(tasks[t], "Error") = {}) =>
      /\ setCookies(tasks[t].cookies, closed(tasks[t])).applied = 0
      /\ tasks[t].pc = "returned"

\* ----------------------------------------------------------- no-throw rule
ZoneNames == Range(ZoneLabels) \cup {"Dialog title"} \cup ZoneSentinels

SeatNames ==
  Range(SeatLabels) \cup Range(QuantityLabels) \cup {"A1", "A2", "A3", "A4", "A5", "A6"}

\* C15: no public operation of the BookingHandler raises to monitorTask,
\* whether the session is open or every page call rejects: the inner catch of
\* the poll loop is never entered, and what the task holds is a boolean, a zone
\* name or sentinel, a list of seat labels, and a details payload that is the
\* fixed failure payload or the one read from the page. The operations are
\* applied to the page of the run before any task starts, the tasks are watched
\* from then on.
C15_HandlersNeverRaise ==
  /\ tasks = <<>> => \A c \in BOOLEAN :
       /\ \A b \in BookOutcomes :
            ~clickBookButton(c, b).raised /\ clickBookButton(c, b).value \in BOOLEAN
       /\ \A k \in 1..Max(1, site.htmlZones) :
            ~selectZone(site, c, k).raised /\ selectZone(site, c, k).value \in ZoneNames
       /\ ~selectSeats(site, c).raised
       /\ Range(selectSeats(site, c).value) \subseteq SeatNames
       /\ ~confirmBooking(site, c).raised /\ confirmBooking(site, c).value \in BOOLEAN
       /\ ~extractTicketDetails(site, c).raised
       /\ (c => extractTicketDetails(site, c).value = FailedDetails)
  /\ \A t \in Tasks :
       /\ ~tasks[t].slept
       /\ (tasks[t].found /\ tasks[t].pc \in {"notify", "hold", "returned"}) =>
            /\ tasks[t].zone \in ZoneNames
            /\ Range(tasks[t].seats) \subseteq SeatNames
            /\ \/ tasks[t].ticketInfo = FailedDetails
               \/ tasks[t].ticketInfo.ticketIds = site.ticketIds

\* every operation of the acquisition ran on a session the pool had closed, on
\* a page that would have given a zone, seats and details
C15_Witness ==
  \E t \in Tasks :
    /\ tasks[t].found /\ tasks[t].pc = "notify" /\ tasks[t].job = "timedout"
    /\ site.canvas = "none" /\ site.htmlZones > 0 /\ site.clickable # <<>>
    /\ site.confirmBtn /\ site.summary
    /\ tasks[t].zone = "Unknown Zone" /\ tasks[t].seats = <<>>
    /\ tasks[t].ticketInfo = FailedDetails

\* ---------------------------------------------------------------- isolation
\* in this step task t emits an Error notification or is ended by the pool's
\* per-task timeout
FaultStep(t) ==
  \/ Cardinality(Kinds(tasks'[t], "Error")) > Cardinality(Kinds(tasks[t], "Error"))
  \/ tasks[t].job = "running" /\ tasks'[t].job = "timedout"

\* C16: a step in which one task fails or is timed out leaves every sibling
\* task as it was, but for the passing of the sibling's own time.
C16_FaultsStayLocal ==
  [][\A t \in Tasks :
       FaultStep(t) =>
         \A s \in Tasks \ {t} :
           tasks'[s] = tasks[s] \/ tasks'[s] = tick(tasks[s])]_vars

\* one task was timed out in mid-poll, its sibling started afterwards and holds
\* after its own Success on a session that is still open
C16_Witness ==
  \E t \in Tasks : \E s \in Tasks \ {t} :
    /\ tasks[t].job = "timedout" /\ tasks[t].pc = "poll" /\ ~tasks[t].found
    /\ tasks[t].notes = <<>>
    /\ tasks[s].pc = "hold" /\ tasks[s].job = "running" /\ tasks[s].elapsed = 0
    /\ Cardinality(Kinds(tasks[s], "Success")) = 1
    /\ tasks[s].notes[1].email = tasks[s].email
    /\ tasks[s].email # tasks[t].email

\* ----------------------------------------------------------------- sessions
\* C17: every task has a session of its own: no two tasks were handed the same
\* page, and the BookingHandler a task drives is built on the task's own page.
C17_OneSessionPerTask ==
  /\ \A t \in Tasks : \A s \in Tasks \ {t} : tasks[t].page # tasks[s].page
  /\ \A t \in Tasks :
       /\ tasks[t].handlerPage \in {0, tasks[t].page}
       /\ tasks[t].pc \in {"poll", "zone", "seats", "confirm", "extract", "notify", "hold"}
            => tasks[t].handlerPage = tasks[t].page

\* two accounts run at the same time, each driving its own page
C17_Witness ==
  \E t \in Tasks : \E s \in Tasks \ {t} :
    /\ tasks[t].job = "running" /\ tasks[s].job = "running"
    /\ tasks[t].pc = "poll" /\ tasks[t].clicked
    /\ tasks[s].pc = "seats"
    /\ tasks[t].email # tasks[s].email
    /\ tasks[t].handlerPage # tasks[s].handlerPage

\* --------------------------------------------------------------- scenario A
\* a page with no canvas, k >= 1 zone elements, and a first matching seat
\* selector with n >= maxSeats elements whose clicks all succeed
ScenarioA ==
  /\ site.canvas = "none" /\ site.htmlZones >= 1 /\ ~site.zoneFault
  /\ \E s \in 1..Len(site.clickable) :
       /\ \A j \in 1..(s - 1) : site.clickable[j] = <<>>
       /\ Len(site.clickable[s]) >= maxSeats
       /\ \A i \in 1..Len(site.clickable[s]) : site.clickable[s][i]

\* a task that went through the acquisition on a session that stayed open
AcquiredOpen(t) ==
  /\ tasks[t].found
  /\ \/ tasks[t].pc = "hold" /\ tasks[t].job = "running"
     \/ tasks[t].pc = "returned" /\ tasks[t].job = "done"

ScenarioAResult(t) ==
  /\ tasks[t].zone \in {ZoneLabels[k] : k \in 1..site.htmlZones}
  /\ tasks[t].seats = [i \in 1..maxSeats |-> SeatLabels[i]]
  /\ Len(tasks[t].notes) = 1
  /\ tasks[t].notes[1].kind = "Success"
  /\ tasks[t].notes[1].seatCount = maxSeats
  /\ tasks[t].notes[1].zone = tasks[t].zone

C19_ExitCodes ==
  /\ exitCode \in {NoExit, 0, 1}
  /\ startPc \in {"ended", "interrupted"} <=> exitCode = 0
  /\ startPc = "exited" <=> exitCode = 1
  /\ (\E t \in Tasks : tasks[t].rejected) => exitCode = 1

\* ------------------------------------------------------------ sink failures
Added(t, kind) ==
  Cardinality(Kinds(tasks'[t], kind)) > Cardinality(Kinds(tasks[t], kind))

\* C20: a notification whose send fails is not raised to the caller: after
\* notifyStart start() goes on to launch the pool, after notifySuccess the task
\* holds, and after notifyError monitorTask returns to the pool.
C20_SinkFailuresContained ==
  [][/\ startNotes' # startNotes => (startPc' = "launch" /\ exitCode' = NoExit)
     /\ \A t \in Tasks :
          /\ Added(t, "Success") =>
               (tasks'[t].pc = "hold" /\ tasks'[t].holdLeft = paymentHoldTime)
          /\ Added(t, "Error") =>
               (tasks'[t].pc = "returned" /\ tasks'[t].job \in {"done", "timedout"})]_vars

\* with the sink down: the Start message failed, the pool was launched all the
\* same, and a task holds after a Success that was not sent
C20_Witness ==
  /\ sink = "down" /\ clusterUp
  /\ Len(startNotes) = 1 /\ ~startNotes[1].sent
  /\ \E t \in Tasks :
       /\ tasks[t].pc = "hold" /\ tasks[t].job = "running"
       /\ Len(tasks[t].notes) = 1 /\ tasks[t].notes[1].kind = "Success"
       /\ ~tasks[t].notes[1].sent

\* ------------------------------------------------------------ account store
\* the accounts loadAccounts reads from the store
Stored(f) == loadAccounts(f)

\* the stored accounts as (email, cookies) pairs
Pairs(accounts) ==
  {[email |-> accounts[i].email, cookies |-> accounts[i].cookies] :
     i \in 1..Len(accounts)}

\* the accounts whose email is not e, in stored order
Others(accounts, e) ==
  LET other(acc) == acc.email # e IN SelectSeq(accounts, other)

\* C21: after a successful saveAccount(e, c) the store holds exactly one
\* account with email e, whose cookies are c, and every account with another
\* email is as it was; no two stored accounts ever share an email; and a
\* successful save of the (e, c) just saved leaves the same (email, cookies)
\* pairs in the store.
C21_UpsertByEmail ==
  /\ [](\A i, j \in 1..Len(Stored(file)) :
          i # j => Stored(file)[i].email # Stored(file)[j].email)
  /\ [][(lastSave'.calls # lastSave.calls /\ lastSave'.ok) =>
          LET e == lastSave'.email
              c == lastSave'.cookies
              before == Stored(file)
              after == Stored(file')
          IN  /\ Cardinality({i \in 1..Len(after) : after[i].email = e}) = 1
              /\ \A i \in 1..Len(after) :
                   after[i].email = e =>
                     after[i].hasCookies /\ after[i].cookies = c
              /\ Others(after, e) = Others(before, e)
              /\ (lastSave.ok /\ lastSave.email = e /\ lastSave.cookies = c) =>
                   Pairs(after) = Pairs(before)]_vars

\* three saves succeeded and two accounts are stored: one save replaced an
\* entry; the latest one replaced the cookies of an account saved before
C21_Witness ==
  /\ lastSave.ok /\ lastSave.saved = 3 /\ Len(Stored(file)) = 2
  /\ Stored(file)[2].email = lastSave.email
  /\ Stored(file)[2].cookies = <<CkSid, CkToken>>
  /\ Stored(file)[1].addedAt < Stored(file)[2].addedAt
  /\ Stored(file)[1].cookies = <<CkToken>>

\* --------------------------------------------------------------- navigation
\* C22: a navigation that fails or times out ends the task: exactly one
\* notification, an Error with the account's email and the fault's message, no
\* clickBookButton call then or later, and the job is neither queued again nor
\* started again.
C22_NavigationFailureIsFatal ==
  \A t \in Tasks :
    tasks[t].nav = "failed" =>
      /\ tasks[t].pc = "returned"
      /\ Len(tasks[t].notes) = 1
      /\ tasks[t].notes[1].kind = "Error"
      /\ tasks[t].notes[1].email = tasks[t].email
      /\ tasks[t].notes[1].error =
           (IF tasks[t].job = "done" THEN "Navigation timeout" ELSE "Session closed")
      /\ ~tasks[t].clicked /\ ~tasks[t].found /\ tasks[t].handlerPage = 0
      /\ Cardinality({s \in Tasks : tasks[s].email = tasks[t].email}) = 1
      /\ \A k \in 1..Len(jobQueue) : jobQueue[k].email # tasks[t].email

\* the navigation timed out on an open session: one Error, the job is done
C22_Witness ==
  \E t \in Tasks :
    /\ tasks[t].pc = "returned" /\ tasks[t].job = "done" /\ tasks[t].nav = "failed"
    /\ tasks[t].notes # <<>> /\ tasks[t].notes[1].error = "Navigation timeout"
    /\ tasks[t].notes[1].email = tasks[t].email
    /\ jobQueue = <<>> /\ Len(tasks) = 1

\* -------------------------------------------------------- cookie rejection
\* C23: a task whose setCookies call returned false (here: page.setCookie
\* rejects the account's records) has failed fast: it has returned with one
\* Error notification that carries the account's email and a message, and it
\* has neither navigated nor polled.
C23_CookieRejectionIsReported ==
  \A t \in Tasks :
    (/\ ~setCookies(tasks[t].cookies, FALSE).ok
     /\ tasks[t].pc \notin {"setup", "cookies", "killed"}) =>
      /\ tasks[t].pc = "returned"
      /\ tasks[t].nav = "" /\ ~tasks[t].clicked
      /\ Cardinality(Kinds(tasks[t], "Error")) = 1
      /\ \A i \in Kinds(tasks[t], "Error") :
           tasks[t].notes[i].email = tasks[t].email /\ tasks[t].notes[i].error # ""

\* ------------------------------------------------------------ pool timeout
\* where a task polls, acquires or holds
PollingPcs == {"poll"}

AcquiringPcs == {"zone", "seats", "confirm", "extract", "notify"}

HoldingPcs == {"hold"}

\* C24: a task the pool has timed out while it polled, acquired or held does
\* nothing more: no poll iteration, no session operation, no Success and no
\* Error notification; at most its hold timer runs out and the function returns.
C24_TimedOutTaskStops ==
  [][\A t \in Tasks :
       (/\ tasks[t].job = "timedout"
        /\ tasks[t].pc \in PollingPcs \cup AcquiringPcs \cup HoldingPcs
        /\ exitCode' = NoExit) =>
         /\ tasks'[t].notes = tasks[t].notes
         /\ tasks'[t].clicked = tasks[t].clicked
         /\ tasks'[t].trace = tasks[t].trace
         /\ \/ tasks'[t].pc = tasks[t].pc
            \/ tasks[t].pc \in HoldingPcs /\ tasks'[t].pc = "returned"]_vars

\* ---------------------------------------------------------------- interrupt
\* C25: a task that polls, acquires or holds on an open session keeps running
\* through every step, an interrupt signal included: its job ends only by its
\* own return or by the pool's per-task timeout.
C25_InterruptSparesRunningTasks ==
  [][\A t \in Tasks :
       (/\ tasks[t].job = "running"
        /\ tasks[t].pc \in PollingPcs \cup AcquiringPcs \cup HoldingPcs) =>
         \/ tasks'[t].job = "running"
         \/ tasks'[t].job = "done" /\ tasks'[t].pc = "returned"
         \/ tasks'[t].job = "timedout" /\ tasks'[t].elapsed >= timeout]_vars

\* ------------------------------------------------------------- pool release
\* every job start() queued has been taken and has ended, by the return of
\* monitorTask or by the pool's timeout
AllJobsEnded ==
  /\ jobQueue = <<>>
  /\ Len(tasks) = Len(validAccounts)
  /\ \A t \in Tasks : tasks[t].job \in {"done", "timedout"}

\* C26: start() closes the pool only when every queued job has been taken and
\* has ended (returned or timed out), never while a job runs; and once start()
\* waits on cluster.idle() it reaches cluster.close() and 'All tasks
\* completed', unless the process is interrupted first.
C26_ReleaseAfterAllJobs ==
  /\ [][(startPc = "idle" /\ startPc' = "completed") => AllJobsEnded]_vars
  /\ [](startPc \in {"completed", "ended"} => (~clusterUp /\ AllJobsEnded))
  /\ [](clusterUp /\ exitCode = NoExit => startPc \in {"queue", "idle"})
  /\ (startPc = "idle" ~> startPc \in {"completed", "interrupted"})

\* the pool was released after two jobs, one of them timed out in a poll loop
\* that never saw the book control
C26_Witness ==
  /\ startPc = "completed" /\ ~clusterUp /\ Len(tasks) = 2
  /\ \E t \in Tasks :
       /\ tasks[t].job = "timedout" /\ tasks[t].pc = "poll"
       /\ ~tasks[t].buttonSeen /\ tasks[t].clicked

\* -------------------------------------------------------------- canvas path
\* the call of selectZone that task t makes in this step, on an open session
\* whose page has a canvas with a bounding box
CanvasCall(t) ==
  /\ tasks[t].pc = "zone" /\ tasks'[t].pc # "zone" /\ tasks'[t].pc # "killed"
  /\ ~closed(tasks[t]) /\ site.canvas = "ok"

Signalled == site.signalAt \in 1..maxAttempts

\* what C27 says of every canvas call but for the "exactly when"
CanvasBounded(t) ==
  LET r == canvasZone(site, 0)
  IN  /\ tasks'[t].pc = "seats" /\ tasks'[t].zone = r.zone
      /\ r.clicks \in 0..maxAttempts
      /\ (Signalled => r.clicks <= site.signalAt)
      /\ (r.via = "signal" => Signalled /\ r.clicks = site.signalAt)

\* C27 as stated: the canvas path makes at most 20 clicks, never clicks after
\* a click that showed the signal, returns, and returns "Zone Selection
\* Timeout" exactly when 20 clicks were made and none was followed by a signal.
C27_TimeoutIffTwentyUnsignalled ==
  [][\A t \in Tasks :
       CanvasCall(t) =>
         /\ CanvasBounded(t)
         /\ (tasks'[t].zone = "Zone Selection Timeout" <=>
               (canvasZone(site, 0).clicks = maxAttempts /\ ~Signalled))]_vars

\* C27 amended: the same, with "Zone Selection Timeout" returned exactly when
\* 20 clicks were made, none was followed by a signal and no page call raised.
C27_TimeoutIffTwentyUnsignalledNoFault ==
  [][\A t \in Tasks :
       CanvasCall(t) =>
         /\ CanvasBounded(t)
         /\ (tasks'[t].zone = "Zone Selection Timeout" <=>
               (/\ canvasZone(site, 0).clicks = maxAttempts /\ ~Signalled
                /\ ~site.zoneFault /\ site.evalFault = 0))]_vars

\* twenty clicks without a signal and without a fault: the timeout sentinel
C27_Witness ==
  \E t \in Tasks :
    /\ tasks[t].pc = "seats" /\ tasks[t].job = "running" /\ tasks[t].elapsed = 0
    /\ site.canvas = "ok" /\ ~Signalled /\ site.evalFault = 0
    /\ canvasZone(site, 0).clicks = maxAttempts
    /\ tasks[t].zone = "Zone Selection Timeout"

\* ------------------------------------------------------------- task binding
\* C28: no worker takes a queued item before cluster.task(monitorTask) has
\* bound the task function: every item taken runs monitorTask, none is failed
\* for want of a task function, and when the pool is released every item
\* start() queued has been run by monitorTask.
C28_ItemsRunMonitorTask ==
  /\ (exitCode = NoExit /\ ~taskFunction) => tasks = <<>>
  /\ \A t \in Tasks : tasks[t].pc # "notask" /\ tasks[t].job # "failed"
  /\ startPc \in {"completed", "ended"} =>
       /\ Len(tasks) = Len(validAccounts)
       /\ \A t \in Tasks : tasks[t].email = validAccounts[t].email

\* both accounts were queued before the task function was bound, and both
\* items have been run by monitorTask by the time the pool is released
C28_Witness ==
  /\ startPc = "completed" /\ Len(validAccounts) = 2 /\ Len(tasks) = 2
  /\ \A t \in Tasks : tasks[t].pc = "returned" /\ tasks[t].job = "done"

\* ------------------------------------------------------- notification count
\* C29: in every state a task has emitted at most one notification, Success
\* and Error counted together, and a task that has emitted a Success is one in
\* which clickBookButton returned true (a task ended with the process keeps
\* only what it has sent).
C29_AtMostOneNotification ==
  \A t \in Tasks :
    /\ Cardinality(Kinds(tasks[t], "Success")) + Cardinality(Kinds(tasks[t], "Error")) <= 1
    /\ Len(tasks[t].notes) <= 1
    /\ (Kinds(tasks[t], "Success") # {} /\ tasks[t].pc # "killed") =>
         (tasks[t].found /\ tasks[t].buttonSeen /\ tasks[t].clicked)

\* a task was timed out during its hold and returned when the hold ended: its
\* one Success is all it has emitted
C29_Witness ==
  \E t \in Tasks :
    /\ tasks[t].pc = "returned" /\ tasks[t].job = "timedout" /\ tasks[t].found
    /\ tasks[t].holdLeft = 0 /\ tasks[t].buttonSeen
    /\ Len(tasks[t].notes) = 1 /\ tasks[t].notes[1].kind = "Success"
    /\ tasks[t].notes[1].sent

\* ------------------------------------------------------------ session proxy
\* C30: the session of every task goes through the proxy assigned to the
\* task's account (none when none is assigned), and the proxy a Success
\* notification reports is the one the session used.
C30_SessionUsesAssignedProxy ==
  \A t \in Tasks :
    /\ tasks[t].sessionProxy = tasks[t].proxy
    /\ \A i \in Kinds(tasks[t], "Success") :
         tasks[t].notes[i].proxy = proxyInfo(tasks[t].sessionProxy)

====
